---- MODULE Spec2Model ----
(***************************************************************************)
(* Verification model of x_agent: the durable work queues of               *)
(* database.py (blocked_users / following_users), the remote unblock call  *)
(* with its retry policy and ghost/zombie reconciliation in                *)
(* services/x_service.py, and the batch orchestrator of                    *)
(* agents/unblock_agent.py.                                                *)
(*                                                                         *)
(* The specifications share the variables:                                 *)
(*   SpecStore    one store operation applied to an arbitrary pair of      *)
(*                queue tables;                                            *)
(*   SpecService  callers of XService.unblock_user stepping through the    *)
(*                remote calls, the remote answers chosen freely;          *)
(*   Spec         sequences of UnblockAgent.execute runs over the store,   *)
(*                with process termination possible between any two steps; *)
(*   SpecSem      the workers of a gathered chunk and their semaphore;     *)
(*   SpecTx       one write operation of DatabaseManager, statement by     *)
(*                statement, inside DatabaseManager.transaction;           *)
(*   SpecMigrate  calls of run_migrations on a new or an older store;      *)
(*   SpecV2       callers of delete_tweet / get_user_tweets sharing the    *)
(*                v2 client, with its rate-limit and rebuild handling;     *)
(*   SpecOneCall  one such call on its own, the event loop being fair.     *)
(***************************************************************************)
EXTENDS Integers, Sequences, FiniteSets, TLC

\* ---------------------------------------------------------------- bounds
\* Target identifiers of the orchestrator runs are 1..NumIds.
NumIds == 3
\* Target identifiers of the store-operation specification are 1..StoreIds.
StoreIds == 2
\* Concurrent callers of the remote service in SpecService.
NumCallers == 2
\* Chunk length used by the modelled runs (the program uses batch_size = 50).
BatchSize == 2

\* Largest number of workers gathered for one chunk in SpecSem (the program
\* gathers up to batch_size = 50).
MaxChunkWorkers == 22

\* Calls of run_migrations in one behaviour of SpecMigrate.
MaxRuns == 3

\* Deepest nesting of a v2 call inside its own rate-limit and corruption
\* handlers in SpecV2 (the program sets no limit).
MaxDepth == 2

Ids == 1..NumIds
StoreIdSet == 1..StoreIds
Callers == 1..NumCallers

\* ------------------------------------------------------- program constants
\* tenacity stop_after_attempt(3) on XService.unblock_user
maxAttempts == 3

\* sem = asyncio.Semaphore(20) in _unblock_user_ids and _unfollow_user_ids
SemaphoreValue == 20

\* the migrations of the versions package: m001 .. m004
NumMigrations == 4

None == 0

VARIABLES
    \* durable store: one row [user_id, status] per target and queue
    blocked_users,
    following_users,
    \* SpecStore: the store operation applied last, its arguments and the
    \* tables it was applied to
    last_op,
    \* remote service, per caller of XService.unblock_user
    spc,        \* where the caller is inside unblock_user
    attempts,   \* tenacity attempt number of the running call
    sleeps,     \* backoff waits of the running call
    calls,      \* remote calls that have returned: <<api, answer>> in order
    result,     \* the value unblock_user returned
    v1_lock,    \* holder of XService.v1_lock, or None
    v2,         \* per caller, the running delete_tweet / get_user_tweets call
    client,     \* XService.client, the shared v2 client and its session
    \* one UnblockAgent.execute run (process memory, lost when the process ends)
    pc,          \* step of execute the run is at; "idle" between runs
    refresh,     \* --refresh
    dry_run,     \* --dry-run
    user_id,     \* --user-id, or None
    fetched,     \* all_blocked_ids, once get_blocked_user_ids has returned
    fetch_result, \* "" until get_blocked_user_ids is called, then how it ended
    pending_ids, \* the list get_pending_blocked_users returned
    i,           \* offset of the running chunk in pending_ids
    results,     \* status returned by the worker of each target of the chunk
    wrote,       \* statuses of the chunk whose store write has completed
    raised,      \* target whose unblock_user exception ended the run, or None
    \* observation of the runs
    invoked,     \* targets whose remote unblock was invoked in this run
    start_table, \* blocked_users as the run found it, kept until the queue is read
    prev,        \* how the previous run ended
    \* one sqlite3 connection, as DatabaseManager.transaction uses it
    conn,        \* state of the connection, its open transaction and what a
                 \* rollback restores
    txn,         \* the store operation running inside transaction()
    \* schema and migrations
    schema,          \* tables and columns of the store file
    schema_versions, \* rows (version numbers) of the ledger table
    backups,         \* backup copies taken by the migration runner
    mig,             \* the run_migrations call: position and local variables
    \* the semaphore of _unblock_user_ids and the tasks of the gathered chunk
    sem,         \* value of asyncio.Semaphore(20)
    tasks        \* how many workers wait for it, are inside it, have left it

storeVars == <<blocked_users, following_users, last_op>>
unblockVars == <<spc, attempts, sleeps, calls, result, v1_lock>>
svcVars == <<unblockVars, v2, client>>
runVars ==
    <<pc, refresh, dry_run, user_id, fetched, fetch_result, pending_ids, i, results,
      wrote, raised, invoked, start_table, prev>>

dbVars == <<conn, txn, schema, schema_versions, backups, mig>>
semVars == <<sem, tasks>>

\* ------------------------------------------------------------------ store
BlockedStatuses == {"PENDING", "UNBLOCKED", "NOT_FOUND", "FAILED"}
FollowingStatuses == {"PENDING", "UNFOLLOWED", "FAILED"}

Row(uid, st) == [user_id |-> uid, status |-> st]

\* user_id INTEGER PRIMARY KEY: at most one row per user_id
UniqueKey(tbl) == \A r1, r2 \in tbl : r1.user_id = r2.user_id => r1 = r2

Keys(tbl) == {r.user_id : r \in tbl}

HasRow(tbl, uid) == \E r \in tbl : r.user_id = uid

StatusOf(tbl, uid) == (CHOOSE r \in tbl : r.user_id = uid).status

\* every table over the ids `ids` with statuses `sts` that satisfies the key
Tables(ids, sts) ==
    UNION {{{Row(u, f[u]) : u \in K} : f \in [K -> sts]} : K \in SUBSET ids}

\* INSERT OR REPLACE in place of INSERT OR IGNORE
InsertOrReplacePending(tbl, user_ids) ==
    {r \in tbl : r.user_id \notin user_ids} \cup {Row(u, "PENDING") : u \in user_ids}

\* INSERT OR IGNORE INTO <queue> (user_id, status) VALUES (?, 'PENDING'),
\* once per id: an id that has a row is skipped
InsertOrIgnorePending(tbl, user_ids) ==
    tbl \cup {Row(u, "PENDING") : u \in {x \in user_ids : ~HasRow(tbl, x)}}

add_blocked_users(tbl, user_ids) ==
    IF user_ids = {} THEN tbl ELSE InsertOrIgnorePending(tbl, user_ids)

add_following_users(tbl, user_ids) ==
    IF user_ids = {} THEN tbl ELSE InsertOrIgnorePending(tbl, user_ids)

\* the ids of `S` in ascending order (rowid order of an INTEGER PRIMARY KEY scan)
RECURSIVE SortedSeq(_)
SortedSeq(S) ==
    IF S = {} THEN <<>>
    ELSE LET m == CHOOSE x \in S : \A y \in S : x <= y
         IN <<m>> \o SortedSeq(S \ {m})

Range(s) == {s[k] : k \in 1..Len(s)}

\* SELECT user_id FROM <queue> WHERE status IN ('PENDING', 'FAILED')
SelectPending(tbl) ==
    SortedSeq({r.user_id : r \in {x \in tbl : x.status \in {"PENDING", "FAILED"}}})

\* the status filter is dropped: SELECT user_id FROM blocked_users
get_pending_blocked_users_all(tbl) == SortedSeq(Keys(tbl))

get_pending_blocked_users(tbl) == SelectPending(tbl)

get_pending_following_users(tbl) == SelectPending(tbl)

\* SELECT COUNT(*) FROM blocked_users
get_all_blocked_users_count(tbl) == Cardinality(tbl)

\* SELECT COUNT(*) FROM blocked_users WHERE status != 'PENDING'
get_processed_users_count(tbl) == Cardinality({r \in tbl : r.status # "PENDING"})

\* the status filter is dropped: DELETE FROM blocked_users
clear_all_blocked_users(tbl) == {}

\* a refresh that deletes nothing
clear_pending_blocked_users_none(tbl) == tbl

\* DELETE FROM <queue> WHERE status = 'PENDING'
clear_pending_blocked_users(tbl) == {r \in tbl : r.status # "PENDING"}

\* the rows that failed are deleted with the pending ones
clear_pending_following_users_and_failed(tbl) ==
    {r \in tbl : r.status \notin {"PENDING", "FAILED"}}

clear_pending_following_users(tbl) == {r \in tbl : r.status # "PENDING"}

\* UPDATE <queue> SET status = ? WHERE user_id = ?  (a missing row is not created)
UpdateWhere(tbl, uids, st) ==
    {IF r.user_id \in uids THEN Row(r.user_id, st) ELSE r : r \in tbl}

update_user_status(tbl, uid, st) == UpdateWhere(tbl, {uid}, st)

update_user_statuses(tbl, user_ids, st) ==
    IF user_ids = {} THEN tbl ELSE UpdateWhere(tbl, user_ids, st)

update_following_status(tbl, user_ids, st) ==
    IF user_ids = {} THEN tbl ELSE UpdateWhere(tbl, user_ids, st)

Min(a, b) == IF a <= b THEN a ELSE b

NoOp == [name |-> "none", ids |-> {}, status |-> "", blocked |-> {}, following |-> {}]

NoResults == [u \in Ids |-> ""]

\* the memory of a process in which no run is going on
RunIdle ==
    /\ pc = "idle"
    /\ refresh = FALSE
    /\ dry_run = FALSE
    /\ user_id = None
    /\ fetched = {}
    /\ fetch_result = ""
    /\ pending_ids = <<>>
    /\ i = 0
    /\ results = NoResults
    /\ wrote = {}
    /\ raised = None
    /\ invoked = {}
    /\ start_table = {}

RunIdleNext ==
    /\ pc' = "idle"
    /\ refresh' = FALSE
    /\ dry_run' = FALSE
    /\ user_id' = None
    /\ fetched' = {}
    /\ fetch_result' = ""
    /\ pending_ids' = <<>>
    /\ i' = 0
    /\ results' = NoResults
    /\ wrote' = {}
    /\ raised' = None
    /\ invoked' = {}
    /\ start_table' = {}

\* sqlite3.connect has not been called
NoConn == [state |-> "none", in_transaction |-> FALSE, snapshot |-> <<>>]

NoTxn == [op |-> "none", ids |-> {}, status |-> "", todo |-> {}, done |-> {},
          phase |-> "idle", exc |-> "", propagated |-> "", pre |-> {}]

\* no run_migrations call is going on and none has been made
NoMig ==
    [pc |-> "idle", avail |-> 0, applied_versions |-> {}, pending |-> <<>>, k |-> 0,
     stmt |-> 0, fallback |-> FALSE, exc |-> "", failed |-> "", applied_now |-> {},
     start |-> <<>>, run |-> 0, prev |-> "none", prev_avail |-> 0]

\* no connection is open, no migration run and no store operation is going on
DbIdle ==
    /\ conn = NoConn
    /\ txn = NoTxn
    /\ schema = {}
    /\ schema_versions = {}
    /\ backups = 0
    /\ mig = NoMig

NoTasks == [waiting |-> 0, inside |-> 0, done |-> 0, raised |-> FALSE]

\* _unblock_user_ids is not running: every permit is free, there is no task
SemIdle ==
    /\ sem = SemaphoreValue
    /\ tasks = NoTasks

\* --------------------------------------------------------- remote service
\* what a remote call can answer: success or one of these errors
ErrorKinds ==
    {"NotFound", "Forbidden", "TooManyRequests", "ServerError",
     "ConnectionError", "Timeout", "NoneTypeItems", "Generic"}

\* the exception behind each answer, as is_transient_error inspects it: its
\* class, the status of its response (0: it has none) and the words its text
\* holds
Exception(e) ==
    CASE e = "NotFound" -> [class |-> "HTTPException", status |-> 404, text |-> ""]
      [] e = "Forbidden" -> [class |-> "HTTPException", status |-> 403, text |-> ""]
      [] e = "TooManyRequests" -> [class |-> "HTTPException", status |-> 429, text |-> ""]
      [] e = "ServerError" -> [class |-> "HTTPException", status |-> 503, text |-> ""]
      [] e = "ConnectionError" ->
            [class |-> "TweepyException", status |-> 0, text |-> "Connection"]
      [] e = "Timeout" -> [class |-> "TweepyException", status |-> 0, text |-> "Timeout"]
      [] e = "NoneTypeItems" ->
            [class |-> "AttributeError", status |-> 0,
             text |-> "'NoneType' object has no attribute 'items'"]
      [] OTHER -> [class |-> "Exception", status |-> 0, text |-> ""]

\* the status test is dropped: every HTTP error is retried
is_transient_error_any_http(e) ==
    Exception(e).class \in {"AttributeError", "HTTPException", "TweepyException"}

\* is_transient_error: the AttributeError "'NoneType' object has no attribute
\* 'items'", an HTTPException with status >= 500, or a TweepyException whose
\* text names a Connection or Timeout failure
is_transient_error(e) ==
    LET x == Exception(e)
    IN IF x.class = "AttributeError"
          /\ x.text = "'NoneType' object has no attribute 'items'"
       THEN TRUE
       ELSE IF x.class \in {"TweepyException", "HTTPException"}
            THEN IF x.class = "HTTPException" /\ x.status # 0 /\ x.status >= 500
                 THEN TRUE
                 ELSE x.text \in {"Connection", "Timeout"}
            ELSE FALSE

\* every error of the existence check read as "absent"
check_user_exists_v1_error_absent(answer) ==
    IF answer = "OK" THEN "True" ELSE "False"

\* Forbidden is not told apart from the other errors of the check
check_user_exists_v1_forbidden_unknown(answer) ==
    CASE answer = "OK" -> "True"
      [] answer = "NotFound" -> "False"
      [] OTHER -> "None"

\* _check_user_exists_v1: True when get_user returns, False on NotFound and
\* on Forbidden (suspended), None on any other exception
check_user_exists_v1(answer) ==
    CASE answer = "OK" -> "True"
      [] answer \in {"NotFound", "Forbidden"} -> "False"
      [] OTHER -> "None"

\* answers of a call as the handlers of the code tell them apart
PrimaryClass(e) ==
    CASE e = "OK" -> "OK"
      [] e = "NotFound" -> "NotFound"
      [] is_transient_error(e) -> "Transient"
      [] OTHER -> "Permanent"

CheckClass(e) == IF e \in {"OK", "NotFound", "Forbidden"} THEN e ELSE "Error"

StrategyClass(e) == IF e \in {"OK", "NotFound"} THEN e ELSE "Error"

Answers == {"OK"} \cup ErrorKinds

\* no v2 call is running
NoCall ==
    [pc |-> "idle", op |-> "", frames |-> <<>>, streak |-> 0, rl |-> 0, tries |-> 0,
     last_rl |-> FALSE, wait |-> "", outcome |-> ""]

\* _init_v2_client: a new AsyncClient; it has no session until it is used
NewClient == [session |-> "none", closes |-> 0, leaked |-> FALSE]

ServiceIdle ==
    /\ spc = [c \in Callers |-> "idle"]
    /\ attempts = [c \in Callers |-> 0]
    /\ sleeps = [c \in Callers |-> 0]
    /\ calls = [c \in Callers |-> <<>>]
    /\ result = [c \in Callers |-> ""]
    /\ v1_lock = None
    /\ v2 = [c \in Callers |-> NoCall]
    /\ client = NewClient

Logged(c, api, answer) == calls' = [calls EXCEPT ![c] = Append(@, <<api, answer>>)]

Return(c, value) ==
    /\ spc' = [spc EXCEPT ![c] = "returned"]
    /\ result' = [result EXCEPT ![c] = value]

\* a caller enters unblock_user
CallUnblockUser(c) ==
    /\ spc[c] = "idle"
    /\ spc' = [spc EXCEPT ![c] = "start"]
    /\ UNCHANGED <<attempts, sleeps, calls, result, v1_lock, v2, client,
                   storeVars, runVars, dbVars, semVars>>

\* one tenacity attempt begins: async with v1_lock, destroy_block is started
AcquirePrimary(c) ==
    /\ spc[c] = "start"
    /\ v1_lock = None
    /\ v1_lock' = c
    /\ attempts' = [attempts EXCEPT ![c] = @ + 1]
    /\ spc' = [spc EXCEPT ![c] = "primary"]
    /\ UNCHANGED <<sleeps, calls, result, v2, client,
                   storeVars, runVars, dbVars, semVars>>

\* the retry policy gives up one attempt early
StopAfterAttemptEarly(n) == n >= maxAttempts - 1

\* stop=stop_after_attempt(3): no further attempt once attempt 3 has failed
StopAfterAttempt(n) == n >= maxAttempts

\* what unblock_user does with the answer of destroy_block: return SUCCESS,
\* go on to the existence check on NotFound, re-raise a transient error to
\* tenacity (which waits and re-attempts, or re-raises to the caller once
\* the attempts are used up), return FAILED on anything else
PrimaryOutcome(c, cls) ==
    CASE cls = "OK" -> Return(c, "SUCCESS")
      [] cls = "NotFound" ->
            /\ spc' = [spc EXCEPT ![c] = "want_check"]
            /\ UNCHANGED result
      [] cls = "Transient" ->
            /\ spc' = [spc EXCEPT ![c] =
                          IF StopAfterAttempt(attempts[c]) THEN "raised" ELSE "backoff"]
            /\ UNCHANGED result
      [] OTHER -> Return(c, "FAILED")

\* destroy_block returns or raises; the lock is released on either path
PrimaryReturns(c) ==
    \E e \in Answers :
        /\ spc[c] = "primary"
        /\ v1_lock' = None
        /\ Logged(c, "destroy_block", PrimaryClass(e))
        /\ PrimaryOutcome(c, PrimaryClass(e))
        /\ UNCHANGED <<attempts, sleeps, v2, client,
                   storeVars, runVars, dbVars, semVars>>

\* wait_exponential(multiplier=1, min=2, max=5) between two attempts
Backoff(c) ==
    /\ spc[c] = "backoff"
    /\ sleeps' = [sleeps EXCEPT ![c] = @ + 1]
    /\ spc' = [spc EXCEPT ![c] = "start"]
    /\ UNCHANGED <<attempts, calls, result, v1_lock, v2, client,
                   storeVars, runVars, dbVars, semVars>>

\* the existence check calls get_user without waiting for the lock
AcquireCheckUnlocked(c) ==
    /\ spc[c] = "want_check"
    /\ v1_lock' = c
    /\ spc' = [spc EXCEPT ![c] = "check"]
    /\ UNCHANGED <<attempts, sleeps, calls, result, v2, client,
                   storeVars, runVars, dbVars, semVars>>

\* _check_user_exists_v1: async with v1_lock, get_user is started
AcquireCheck(c) ==
    /\ spc[c] = "want_check"
    /\ v1_lock = None
    /\ v1_lock' = c
    /\ spc' = [spc EXCEPT ![c] = "check"]
    /\ UNCHANGED <<attempts, sleeps, calls, result, v2, client,
                   storeVars, runVars, dbVars, semVars>>

\* a confirmed-absent target is handed to the zombie recovery all the same
ExistsOutcomeAlwaysRecovers(c, exists) ==
    CASE exists \in {"True", "False"} ->
            /\ spc' = [spc EXCEPT ![c] = "strategy_a"]
            /\ UNCHANGED result
      [] OTHER -> Return(c, "FAILED")

\* unblock_user on the answer of the existence check: zombie recovery when
\* the target exists, NOT_FOUND when it is confirmed missing, FAILED when
\* the check was inconclusive
ExistsOutcome(c, exists) ==
    CASE exists = "True" ->
            /\ spc' = [spc EXCEPT ![c] = "strategy_a"]
            /\ UNCHANGED result
      [] exists = "False" -> Return(c, "NOT_FOUND")
      [] OTHER -> Return(c, "FAILED")

CheckReturns(c) ==
    \E e \in Answers :
        /\ spc[c] = "check"
        /\ v1_lock' = None
        /\ Logged(c, "get_user", CheckClass(e))
        /\ ExistsOutcome(c, check_user_exists_v1(e))
        /\ UNCHANGED <<attempts, sleeps, v2, client,
                   storeVars, runVars, dbVars, semVars>>

\* Strategy 1 ends the recovery: a failed v2 request is reported NOT_FOUND
StrategyAOutcomeGivesUp(c, cls) ==
    IF cls = "OK" THEN Return(c, "SUCCESS") ELSE Return(c, "NOT_FOUND")

\* Strategy 1 runs the toggle even after the v2 request succeeded
StrategyAOutcomeFallsThrough(c, cls) ==
    /\ spc' = [spc EXCEPT ![c] = "want_toggle"]
    /\ UNCHANGED result

\* _handle_zombie_recovery, Strategy 1: SUCCESS when the v2 DELETE returns,
\* on to Strategy 2 on NotFound and on any other exception
StrategyAOutcome(c, cls) ==
    IF cls = "OK"
    THEN Return(c, "SUCCESS")
    ELSE /\ spc' = [spc EXCEPT ![c] = "want_toggle"]
         /\ UNCHANGED result

\* Strategy 1: DELETE /2/users/:me/blocking/:id on the v2 client (no v1 lock)
StrategyA(c) ==
    \E e \in Answers :
        /\ spc[c] = "strategy_a"
        /\ Logged(c, "v2_unblock", StrategyClass(e))
        /\ StrategyAOutcome(c, StrategyClass(e))
        /\ UNCHANGED <<attempts, sleeps, v1_lock, v2, client,
                   storeVars, runVars, dbVars, semVars>>

\* Strategy 2: async with v1_lock, create_block is started
AcquireToggle(c) ==
    /\ spc[c] = "want_toggle"
    /\ v1_lock = None
    /\ v1_lock' = c
    /\ spc' = [spc EXCEPT ![c] = "create_block"]
    /\ UNCHANGED <<attempts, sleeps, calls, result, v2, client,
                   storeVars, runVars, dbVars, semVars>>

\* Strategy 2 failed: "All recovery strategies failed", return NOT_FOUND
ToggleFailed(c) == Return(c, "NOT_FOUND")

\* create_block returns: destroy_block follows under the same lock; an
\* exception leaves the lock and ends the recovery
CreateBlockReturns(c) ==
    \E e \in Answers :
        /\ spc[c] = "create_block"
        /\ Logged(c, "create_block", StrategyClass(e))
        /\ IF e = "OK"
           THEN /\ spc' = [spc EXCEPT ![c] = "toggle_destroy"]
                /\ UNCHANGED <<result, v1_lock>>
           ELSE /\ ToggleFailed(c)
                /\ v1_lock' = None
        /\ UNCHANGED <<attempts, sleeps, v2, client,
                   storeVars, runVars, dbVars, semVars>>

\* the destroy_block of the toggle returns or raises; the lock is released
ToggleDestroyReturns(c) ==
    \E e \in Answers :
        /\ spc[c] = "toggle_destroy"
        /\ v1_lock' = None
        /\ Logged(c, "toggle_destroy_block", StrategyClass(e))
        /\ IF e = "OK" THEN Return(c, "SUCCESS") ELSE ToggleFailed(c)
        /\ UNCHANGED <<attempts, sleeps, v2, client,
                   storeVars, runVars, dbVars, semVars>>

InitService ==
    /\ blocked_users = {}
    /\ following_users = {}
    /\ last_op = NoOp
    /\ ServiceIdle
    /\ RunIdle
    /\ prev = "none"
    /\ DbIdle
    /\ SemIdle

NextService ==
    \E c \in Callers :
        \/ CallUnblockUser(c)
        \/ AcquirePrimary(c)
        \/ PrimaryReturns(c)
        \/ Backoff(c)
        \/ AcquireCheck(c)
        \/ CheckReturns(c)
        \/ StrategyA(c)
        \/ AcquireToggle(c)
        \/ CreateBlockReturns(c)
        \/ ToggleDestroyReturns(c)

\* ------------------------------------------- retry-wrapped v2 calls
\* A call of delete_tweet or get_user_tweets is a stack of tenacity frames:
\* the rate-limit handler and the corruption handler call the decorated method
\* again from inside the running attempt. frames[k] is the attempt number of
\* the k-th nested call. streak counts the transient errors handed to
\* tenacity in a row (up to maxAttempts), rl the rate-limit signals (up to 2);
\* last_rl tells whether the last answer was a rate-limit signal, tries counts
\* the requests answered by anything else (up to maxAttempts + 1), wait is
\* the sleep of the last rate-limit wait, kept until the next answer.
V2Ops == {"delete_tweet", "get_user_tweets"}

\* what the response headers of a 429 hold: x-rate-limit-reset in the future
\* or in the past, retry-after, or neither; every branch sleeps
RateLimitHeaders == {"reset_future", "reset_past", "retry_after", "none"}

\* delete_tweet has no clause for TooManyRequests: the generic clause logs it
\* and returns False
delete_tweet_no_rate_limit_clause(e) ==
    CASE e = "OK" -> "return"
      [] is_transient_error(e) /\ e = "NoneTypeItems" -> "recreate"
      [] is_transient_error(e) -> "raise"
      [] OTHER -> "return_false"

\* delete_tweet, by the except clause that takes the answer of
\* client.delete_tweet
delete_tweet(e) ==
    CASE e = "OK" -> "return"
      [] e = "TooManyRequests" -> "rate_limit"
      [] is_transient_error(e) /\ e = "NoneTypeItems" -> "recreate"
      [] is_transient_error(e) -> "raise"
      [] OTHER -> "return_false"

\* get_user_tweets: as delete_tweet, but a permanent error is raised
get_user_tweets(e) ==
    CASE e = "OK" -> "return"
      [] e = "TooManyRequests" -> "rate_limit"
      [] is_transient_error(e) /\ e = "NoneTypeItems" -> "recreate"
      [] OTHER -> "raise"

Handler(op, e) == IF op = "delete_tweet" THEN delete_tweet(e) ELSE get_user_tweets(e)

\* reraise=True: a frame whose last attempt failed hands the transient error
\* to the frame that called it, whose running attempt fails with it
RECURSIVE Unwind(_)
Unwind(frames) ==
    IF frames = <<>> THEN <<>>
    ELSE IF StopAfterAttempt(frames[Len(frames)])
         THEN Unwind(SubSeq(frames, 1, Len(frames) - 1))
         ELSE frames

V2Unchanged == UNCHANGED <<unblockVars, storeVars, runVars, dbVars, semVars>>

\* a caller enters delete_tweet or get_user_tweets: first attempt
CallV2(c) ==
    \E op \in V2Ops :
        /\ v2[c].pc = "idle"
        /\ v2' = [v2 EXCEPT ![c] = [NoCall EXCEPT !.pc = "request", !.op = op,
                                                  !.frames = <<1>>]]
        /\ UNCHANGED client
        /\ V2Unchanged

\* the request of the running attempt is answered. A client that has no
\* session opens one; a request on a closed session fails. The value or the
\* permanent error leaves every nested call; a transient error goes to
\* tenacity, which waits and re-attempts or re-raises to the calling frame
Request(c) ==
    \E e \in Answers :
        LET call == v2[c]
            h == Handler(call.op, e)
            left == Unwind(call.frames)
            n == IF e = "TooManyRequests" THEN call.tries
                 ELSE Min(call.tries + 1, maxAttempts + 1)
        IN /\ call.pc = "request"
           /\ client.session = "closed" => e = "Generic"
           /\ h \in {"rate_limit", "recreate"} => Len(call.frames) < MaxDepth
           /\ client' = [client EXCEPT !.session = IF @ = "none" THEN "open" ELSE @]
           /\ v2' = [v2 EXCEPT ![c] =
                  CASE h = "return" ->
                        [call EXCEPT !.pc = "returned", !.outcome = "value",
                                     !.tries = n, !.wait = "", !.last_rl = FALSE]
                    [] h = "return_false" ->
                        [call EXCEPT !.pc = "returned", !.outcome = "False",
                                     !.tries = n, !.wait = "", !.last_rl = e = "TooManyRequests"]
                    [] h = "rate_limit" ->
                        [call EXCEPT !.pc = "rate_limit", !.rl = Min(@ + 1, 2),
                                     !.streak = 0, !.tries = n, !.wait = "", !.last_rl = TRUE]
                    [] h = "recreate" ->
                        [call EXCEPT !.pc = "close", !.streak = 0, !.tries = n, !.wait = "", !.last_rl = FALSE]
                    [] h = "raise" /\ is_transient_error(e) ->
                        [call EXCEPT !.pc = IF left = <<>> THEN "raised" ELSE "backoff",
                                     !.outcome = IF left = <<>> THEN "transient" ELSE "",
                                     !.frames = left,
                                     !.streak = Min(@ + 1, maxAttempts),
                                     !.tries = n, !.wait = "", !.last_rl = FALSE]
                    [] OTHER ->
                        [call EXCEPT !.pc = "raised", !.outcome = "permanent",
                                     !.tries = n, !.wait = "", !.last_rl = e = "TooManyRequests"]]
           /\ V2Unchanged

\* wait_exponential between two attempts of the same frame
V2Backoff(c) ==
    /\ v2[c].pc = "backoff"
    /\ v2' = [v2 EXCEPT ![c].pc = "request",
                        ![c].frames[Len(v2[c].frames)] = @ + 1]
    /\ UNCHANGED client
    /\ V2Unchanged

\* _handle_v2_rate_limit: the time slept, by the headers of the 429
wait_seconds(headers) ==
    CASE headers = "reset_future" -> "reset + 5"
      [] headers = "reset_past" -> "1801"
      [] headers = "retry_after" -> "retry-after + 5"
      [] OTHER -> "901"

\* a handler that rebuilds the client only when the 429 has a header to go by
RateLimitSleepRebuildsOnHeader(c) ==
    \E headers \in RateLimitHeaders :
        /\ v2[c].pc = "rate_limit"
        /\ v2' = [v2 EXCEPT ![c] =
               IF headers = "none"
               THEN [@ EXCEPT !.pc = "request", !.wait = wait_seconds(headers),
                              !.frames = Append(@, 1)]
               ELSE [@ EXCEPT !.pc = "close", !.wait = wait_seconds(headers)]]
        /\ UNCHANGED client
        /\ V2Unchanged

\* _handle_v2_rate_limit: asyncio.sleep for the time the headers give, then
\* on to _recreate_v2_client
RateLimitSleep(c) ==
    \E headers \in RateLimitHeaders :
        /\ v2[c].pc = "rate_limit"
        /\ v2' = [v2 EXCEPT ![c].pc = "close", ![c].wait = wait_seconds(headers)]
        /\ UNCHANGED client
        /\ V2Unchanged

\* _recreate_v2_client, "await self.close()": a session the client has is
\* closed; the coroutine may be suspended in that await
RecreateClose(c) ==
    /\ v2[c].pc = "close"
    /\ v2' = [v2 EXCEPT ![c].pc = "init"]
    /\ client' = IF client.session = "none" THEN client
                 ELSE [client EXCEPT !.session = "closed",
                                     !.closes = IF @ < 2 THEN @ + 1 ELSE @]
    /\ V2Unchanged

\* _recreate_v2_client, "self._init_v2_client()": self.client is replaced,
\* whatever it is by now; then the handler calls the method again
RecreateInit(c) ==
    /\ v2[c].pc = "init"
    /\ client' = [NewClient EXCEPT !.leaked = client.leaked \/ client.session = "open"]
    /\ v2' = [v2 EXCEPT ![c].pc = "request", ![c].frames = Append(@, 1)]
    /\ V2Unchanged

InitV2 ==
    /\ blocked_users = {}
    /\ following_users = {}
    /\ last_op = NoOp
    /\ ServiceIdle
    /\ RunIdle
    /\ prev = "none"
    /\ DbIdle
    /\ SemIdle

NextV2 ==
    \E c \in Callers :
        \/ CallV2(c)
        \/ Request(c)
        \/ V2Backoff(c)
        \/ RateLimitSleep(c)
        \/ RecreateClose(c)
        \/ RecreateInit(c)

\* one call on its own: the steps of a single caller
NextOneCall ==
    \E c \in {1} :
        \/ CallV2(c)
        \/ Request(c)
        \/ V2Backoff(c)
        \/ RateLimitSleep(c)
        \/ RecreateClose(c)
        \/ RecreateInit(c)

\* ------------------------------------------------------ batch orchestrator
\* the slice has no upper end: chunk = ids_to_unblock[i:]
ChunkAtUnbounded(ids, k) == {ids[n] : n \in (k + 1)..Len(ids)}

\* chunk = ids_to_unblock[i : i + batch_size]
ChunkAt(ids, k) == {ids[n] : n \in (k + 1)..Min(k + BatchSize, Len(ids))}

Chunk == ChunkAt(pending_ids, i)

\* what a worker's await of x_service.unblock_user can produce: one of the
\* three statuses, or the transient error re-raised after the last attempt
UnblockUserStatuses == {"SUCCESS", "NOT_FOUND", "FAILED"}

\* chunk_status_map is filled in this key order; a status with no target
\* gets no store write
StatusOrder == <<"SUCCESS", "NOT_FOUND", "FAILED">>

\* status if status != "SUCCESS" else "UNBLOCKED"
DbStatus(st) == IF st = "SUCCESS" THEN "UNBLOCKED" ELSE st

ChunkIdsWith(st) == {u \in Chunk : results[u] = st}

ToWrite == SelectSeq(StatusOrder, LAMBDA st : ChunkIdsWith(st) # {} /\ st \notin wrote)

\* the queue is synchronised on every run, whatever it holds
NeedsSyncAlways(total_blocked_count, r) == TRUE

\* if total_blocked_count == 0 or self.refresh
NeedsSync(total_blocked_count, r) == total_blocked_count = 0 \/ r

\* execute starts: the flags are read and, with no --user-id, the row count
\* decides between synchronising the queue and resuming from it
Start ==
    \E r \in BOOLEAN, d \in BOOLEAN, uid \in {None} \cup Ids :
        /\ pc = "idle"
        /\ refresh' = r
        /\ dry_run' = d
        /\ user_id' = uid
        /\ start_table' = blocked_users
        /\ pc' = IF uid # None THEN "single"
                 ELSE IF NeedsSync(get_all_blocked_users_count(blocked_users), r)
                      THEN (IF r THEN "clear" ELSE "fetch")
                      ELSE "select"
        /\ UNCHANGED <<fetched, fetch_result, pending_ids, i, results, wrote, raised,
                       invoked, prev, storeVars, svcVars, dbVars, semVars>>

\* --user-id: unblock_user for that id alone (SUCCESS at once in a dry run);
\* a re-raised transient error ends execute with the exception
SingleCall ==
    /\ pc = "single"
    /\ IF dry_run
       THEN /\ results' = [results EXCEPT ![user_id] = "SUCCESS"]
            /\ pc' = "single_write"
            /\ UNCHANGED <<invoked, raised>>
       ELSE /\ invoked' = invoked \cup {user_id}
            /\ \/ \E st \in UnblockUserStatuses :
                      /\ results' = [results EXCEPT ![user_id] = st]
                      /\ pc' = "single_write"
                      /\ UNCHANGED raised
               \/ /\ pc' = "error"
                  /\ raised' = user_id
                  /\ UNCHANGED results
    /\ UNCHANGED <<refresh, dry_run, user_id, fetched, fetch_result, pending_ids, i, wrote,
                   start_table, prev, storeVars, svcVars, dbVars, semVars>>

\* update_user_status(user_id, "UNBLOCKED") on SUCCESS, "FAILED" otherwise
SingleWrite ==
    /\ pc = "single_write"
    /\ blocked_users' =
           update_user_status(blocked_users, user_id,
                              IF results[user_id] = "SUCCESS" THEN "UNBLOCKED" ELSE "FAILED")
    /\ pc' = "done"
    /\ UNCHANGED <<refresh, dry_run, user_id, fetched, fetch_result, pending_ids, i, results, wrote, raised,
                   invoked, start_table, prev, following_users, last_op, svcVars, dbVars, semVars>>

\* forced refresh: clear_pending_blocked_users in its own transaction
ClearPending ==
    /\ pc = "clear"
    /\ blocked_users' = clear_pending_blocked_users(blocked_users)
    /\ pc' = "fetch"
    /\ UNCHANGED <<refresh, dry_run, user_id, fetched, fetch_result, pending_ids, i, results, wrote, raised,
                   invoked, start_table, prev, following_users, last_op, svcVars, dbVars, semVars>>

\* get_blocked_user_ids returns the remote target set, or raises (attempts
\* used up, or a permanent error) and execute ends with the exception
Fetch ==
    /\ pc = "fetch"
    /\ \/ \E F \in SUBSET Ids :
              /\ fetched' = F
              /\ fetch_result' = "returned"
              /\ pc' = IF F # {} THEN "upsert"
                       ELSE IF ~refresh THEN "done" ELSE "select"
       \/ /\ pc' = "error"
          /\ fetch_result' = "raised"
          /\ UNCHANGED fetched
    /\ UNCHANGED <<refresh, dry_run, user_id, pending_ids, i, results, wrote, raised,
                   invoked, start_table, prev, storeVars, svcVars, dbVars, semVars>>

\* add_blocked_users(all_blocked_ids)
Upsert ==
    /\ pc = "upsert"
    /\ blocked_users' = add_blocked_users(blocked_users, fetched)
    /\ pc' = "select"
    /\ UNCHANGED <<refresh, dry_run, user_id, fetched, fetch_result, pending_ids, i, results, wrote, raised,
                   invoked, start_table, prev, following_users, last_op, svcVars, dbVars, semVars>>

\* pending_ids = get_pending_blocked_users(); nothing pending ends the run,
\* otherwise the workers of the first chunk are gathered
Select ==
    /\ pc = "select"
    /\ pending_ids' = get_pending_blocked_users(blocked_users)
    /\ pc' = IF pending_ids' = <<>> THEN "done" ELSE "gather"
    /\ fetched' = {}
    /\ UNCHANGED <<refresh, dry_run, user_id, fetch_result, i, results, wrote, raised,
                   invoked, start_table, prev, storeVars, svcVars, dbVars, semVars>>

\* the worker makes the remote call in a dry run too
unblock_worker_calls_always(d) == TRUE

\* unblock_worker: "if self.dry_run: return user_id, SUCCESS" comes before
\* the remote call
unblock_worker_calls(d) == ~d

\* unblock_worker(u) of the running chunk finishes: SUCCESS without a remote
\* call in a dry run; otherwise the status unblock_user returned, or its
\* exception, which asyncio.gather passes on to execute at once
Worker ==
    \E u \in Chunk :
        /\ pc = "gather"
        /\ results[u] = ""
        /\ IF ~unblock_worker_calls(dry_run)
           THEN /\ results' = [results EXCEPT ![u] = "SUCCESS"]
                /\ UNCHANGED <<invoked, pc, raised>>
           ELSE /\ invoked' = invoked \cup {u}
                /\ \/ \E st \in UnblockUserStatuses :
                          /\ results' = [results EXCEPT ![u] = st]
                          /\ UNCHANGED <<pc, raised>>
                   \/ /\ pc' = "error"
                      /\ raised' = u
                      /\ UNCHANGED results
        /\ UNCHANGED <<refresh, dry_run, user_id, fetched, fetch_result, pending_ids, i, wrote,
                       start_table, prev, storeVars, svcVars, dbVars, semVars>>

\* a worker of the abandoned chunk that was already scheduled still reaches
\* its remote call before the event loop is torn down; its status is dropped
OrphanedWorker ==
    \E u \in Chunk :
        /\ pc = "error"
        /\ raised # None
        /\ user_id = None
        /\ results[u] = ""
        /\ u \notin invoked
        /\ invoked' = invoked \cup {u}
        /\ UNCHANGED <<pc, refresh, dry_run, user_id, fetched, fetch_result, pending_ids, i, results,
                       wrote, raised, start_table, prev, storeVars, svcVars, dbVars, semVars>>

\* gather has returned every worker's status: the next non-empty status
\* list is written with update_user_statuses in a transaction of its own;
\* after the last one the loop moves to the next chunk or the run is done
WriteChunkStatus ==
    /\ pc = "gather"
    /\ \A u \in Chunk : results[u] # ""
    /\ LET st == ToWrite[1]
           last == Len(ToWrite) = 1
       IN /\ blocked_users' =
                 update_user_statuses(blocked_users, ChunkIdsWith(st), DbStatus(st))
          /\ IF last
             THEN /\ i' = i + BatchSize
                  /\ results' = NoResults
                  /\ wrote' = {}
                  /\ pc' = IF i + BatchSize >= Len(pending_ids) THEN "done" ELSE "gather"
             ELSE /\ wrote' = wrote \cup {st}
                  /\ UNCHANGED <<i, results, pc>>
    /\ UNCHANGED <<refresh, dry_run, user_id, fetched, fetch_result, pending_ids, raised, invoked,
                   start_table, prev, following_users, last_op, svcVars, dbVars, semVars>>

\* chunks of the running batch whose every store write has completed
ChunksFlushed == IF user_id = None /\ pending_ids # <<>> THEN i \div BatchSize ELSE 0

\* execute has returned or raised: the process exits
Finish ==
    /\ pc \in {"done", "error"}
    /\ prev' = pc
    /\ RunIdleNext
    /\ UNCHANGED <<storeVars, svcVars, dbVars, semVars>>

\* the process is terminated between two steps of a run; only the store survives
Crash ==
    /\ pc \notin {"idle", "done", "error"}
    /\ prev' = IF pc = "gather" /\ ChunksFlushed >= 1 /\ wrote = {}
               THEN "crash_between_chunks" ELSE "crash"
    /\ RunIdleNext
    /\ UNCHANGED <<storeVars, svcVars, dbVars, semVars>>

Init ==
    /\ blocked_users = {}
    /\ following_users = {}
    /\ last_op = NoOp
    /\ ServiceIdle
    /\ RunIdle
    /\ prev = "none"
    /\ DbIdle
    /\ SemIdle

Next ==
    \/ Start
    \/ SingleCall
    \/ SingleWrite
    \/ ClearPending
    \/ Fetch
    \/ Upsert
    \/ Select
    \/ Worker
    \/ OrphanedWorker
    \/ WriteChunkStatus
    \/ Finish
    \/ Crash

\* ------------------------------------------------- SpecStore: one operation
Op(n, ids, st) ==
    [name |-> n, ids |-> ids, status |-> st,
     blocked |-> blocked_users, following |-> following_users]

InitStore ==
    /\ blocked_users \in Tables(StoreIdSet, BlockedStatuses)
    /\ following_users \in Tables(StoreIdSet, FollowingStatuses)
    /\ last_op = NoOp
    /\ ServiceIdle
    /\ RunIdle
    /\ prev = "none"
    /\ DbIdle
    /\ SemIdle

AddBlockedUsers ==
    \E S \in SUBSET StoreIdSet :
        /\ last_op.name = "none"
        /\ blocked_users' = add_blocked_users(blocked_users, S)
        /\ last_op' = Op("add_blocked_users", S, "PENDING")
        /\ UNCHANGED <<following_users, svcVars, runVars, dbVars, semVars>>

AddFollowingUsers ==
    \E S \in SUBSET StoreIdSet :
        /\ last_op.name = "none"
        /\ following_users' = add_following_users(following_users, S)
        /\ last_op' = Op("add_following_users", S, "PENDING")
        /\ UNCHANGED <<blocked_users, svcVars, runVars, dbVars, semVars>>

ClearPendingBlockedUsers ==
    /\ last_op.name = "none"
    /\ blocked_users' = clear_pending_blocked_users(blocked_users)
    /\ last_op' = Op("clear_pending_blocked_users", {}, "")
    /\ UNCHANGED <<following_users, svcVars, runVars, dbVars, semVars>>

ClearPendingFollowingUsers ==
    /\ last_op.name = "none"
    /\ following_users' = clear_pending_following_users(following_users)
    /\ last_op' = Op("clear_pending_following_users", {}, "")
    /\ UNCHANGED <<blocked_users, svcVars, runVars, dbVars, semVars>>

UpdateUserStatus ==
    \E u \in StoreIdSet, st \in {"UNBLOCKED", "FAILED"} :
        /\ last_op.name = "none"
        /\ blocked_users' = update_user_status(blocked_users, u, st)
        /\ last_op' = Op("update_user_status", {u}, st)
        /\ UNCHANGED <<following_users, svcVars, runVars, dbVars, semVars>>

UpdateUserStatuses ==
    \E S \in SUBSET StoreIdSet, st \in {"UNBLOCKED", "NOT_FOUND", "FAILED"} :
        /\ last_op.name = "none"
        /\ blocked_users' = update_user_statuses(blocked_users, S, st)
        /\ last_op' = Op("update_user_statuses", S, st)
        /\ UNCHANGED <<following_users, svcVars, runVars, dbVars, semVars>>

UpdateFollowingStatus ==
    \E S \in SUBSET StoreIdSet, st \in {"UNFOLLOWED", "FAILED"} :
        /\ last_op.name = "none"
        /\ following_users' = update_following_status(following_users, S, st)
        /\ last_op' = Op("update_following_status", S, st)
        /\ UNCHANGED <<blocked_users, svcVars, runVars, dbVars, semVars>>

NextStore ==
    \/ AddBlockedUsers
    \/ AddFollowingUsers
    \/ ClearPendingBlockedUsers
    \/ ClearPendingFollowingUsers
    \/ UpdateUserStatus
    \/ UpdateUserStatuses
    \/ UpdateFollowingStatus

\* ------------------------------------------- SpecSem: the worker semaphore
\* The workers of a chunk are alike, so the tasks are counted, not named:
\* tasks.waiting have not passed "async with sem", tasks.inside are awaiting
\* unblock_user / unfollow_user, tasks.done have left the block.

\* the semaphore never reports itself locked
locked_never(value) == FALSE

\* Semaphore.locked(): no permit is left, acquire() has to wait
locked(value) == value = 0

InitSem ==
    /\ blocked_users = {}
    /\ following_users = {}
    /\ last_op = NoOp
    /\ ServiceIdle
    /\ RunIdle
    /\ prev = "none"
    /\ DbIdle
    /\ SemIdle

\* tasks = [unblock_worker(uid) for uid in chunk]; asyncio.gather(*tasks):
\* one task per target of the chunk, once the gather of the chunk before has
\* returned
GatherChunk ==
    \E n \in 1..MaxChunkWorkers :
        /\ tasks.waiting = 0
        /\ tasks.inside = 0
        /\ ~tasks.raised
        /\ tasks' = [waiting |-> n, inside |-> 0, done |-> 0, raised |-> FALSE]
        /\ UNCHANGED <<sem, storeVars, svcVars, runVars, dbVars>>

\* async with sem: a waiting worker takes a permit and calls the remote action
WorkerAcquire ==
    /\ tasks.waiting > 0
    /\ ~locked(sem)
    /\ sem' = sem - 1
    /\ tasks' = [tasks EXCEPT !.waiting = @ - 1, !.inside = @ + 1]
    /\ UNCHANGED <<storeVars, svcVars, runVars, dbVars>>

\* the remote action returns a status: the block is left, the permit given back
WorkerReturn ==
    /\ tasks.inside > 0
    /\ sem' = sem + 1
    /\ tasks' = [tasks EXCEPT !.inside = @ - 1, !.done = @ + 1]
    /\ UNCHANGED <<storeVars, svcVars, runVars, dbVars>>

\* the remote action raises: the block is left through the exception, the
\* permit is given back; gather passes the exception on while the other
\* tasks keep running
WorkerRaise ==
    /\ tasks.inside > 0
    /\ sem' = sem + 1
    /\ tasks' = [tasks EXCEPT !.inside = @ - 1, !.done = @ + 1, !.raised = TRUE]
    /\ UNCHANGED <<storeVars, svcVars, runVars, dbVars>>

\* asyncio.run closes the loop after the exception: the tasks that are left
\* are cancelled, the semaphore goes with the call
Shutdown ==
    /\ tasks.raised
    /\ sem' = SemaphoreValue
    /\ tasks' = NoTasks
    /\ UNCHANGED <<storeVars, svcVars, runVars, dbVars>>

NextSem ==
    \/ GatherChunk
    \/ WorkerAcquire
    \/ WorkerReturn
    \/ WorkerRaise
    \/ Shutdown

\* ------------------------------------- the sqlite3 connection, SpecTx
\* DatabaseManager.transaction: connect, yield the connection to the body,
\* commit when the body returns, roll back and re-raise when it raises,
\* close the connection on every path. The connection is the only one, so
\* the store variables hold what it sees; conn.snapshot is what a rollback
\* restores.

\* what the store file holds, as the open connection sees it
Db ==
    [blocked |-> blocked_users, following |-> following_users,
     schema |-> schema, ledger |-> schema_versions]

\* conn = sqlite3.connect(self.db_path)
connect == [state |-> "open", in_transaction |-> FALSE, snapshot |-> <<>>]

\* the sqlite3 module (isolation_level "") opens a transaction before an
\* INSERT, UPDATE, DELETE or REPLACE when none is open, and before no other
\* statement: a CREATE or ALTER outside a transaction is committed at once
execute(c, kind, db) ==
    IF kind = "dml" /\ ~c.in_transaction
    THEN [c EXCEPT !.in_transaction = TRUE, !.snapshot = db]
    ELSE c

\* conn.commit(), and the connection after conn.rollback()
commit(c) == [c EXCEPT !.in_transaction = FALSE, !.snapshot = <<>>]

\* the exception handler commits what the body wrote in place of rolling back
rollback_keeps(c, db) == db

\* conn.rollback(): the store file afterwards
rollback(c, db) == IF c.in_transaction THEN c.snapshot ELSE db

\* conn.close(): an open transaction is discarded
close(c) == [state |-> "closed", in_transaction |-> FALSE, snapshot |-> <<>>]

\* the store file is set to db
SetDb(db) ==
    /\ blocked_users' = db.blocked
    /\ following_users' = db.following
    /\ schema' = db.schema
    /\ schema_versions' = db.ledger

\* exceptions a statement of a body can raise
SqliteErrors == {"OperationalError", "IntegrityError"}

\* the write operations of DatabaseManager that take a list of ids and run
\* one statement per id (cursor.executemany)
ExecuteManyOps ==
    {"add_blocked_users", "update_user_statuses", "add_following_users",
     "update_following_status"}

\* the statements of the body of op: the ids for executemany (none when the
\* operation returns before transaction() on an empty list), one statement
\* otherwise
Statements(op, ids) == IF op \in ExecuteManyOps THEN ids ELSE {None}

\* one statement of the body of op applied to the store
ApplyStatement(op, db, x, ids, st) ==
    CASE op = "add_blocked_users" ->
            [db EXCEPT !.blocked = InsertOrIgnorePending(@, {x})]
      [] op = "update_user_statuses" ->
            [db EXCEPT !.blocked = UpdateWhere(@, {x}, st)]
      [] op = "update_user_status" ->
            [db EXCEPT !.blocked = UpdateWhere(@, ids, st)]
      [] op = "clear_pending_blocked_users" ->
            [db EXCEPT !.blocked = {r \in @ : r.status # "PENDING"}]
      [] op = "add_following_users" ->
            [db EXCEPT !.following = InsertOrIgnorePending(@, {x})]
      [] op = "update_following_status" ->
            [db EXCEPT !.following = UpdateWhere(@, {x}, st)]
      [] op = "clear_pending_following_users" ->
            [db EXCEPT !.following = {r \in @ : r.status # "PENDING"}]

\* the calls of the write operations that enter transaction()
TxCalls ==
    {[op |-> "add_blocked_users", ids |-> S, status |-> "PENDING"] :
        S \in SUBSET StoreIdSet \ {{}}}
    \cup {[op |-> "update_user_statuses", ids |-> S, status |-> st] :
            S \in SUBSET StoreIdSet \ {{}}, st \in {"UNBLOCKED", "NOT_FOUND", "FAILED"}}
    \cup {[op |-> "update_user_status", ids |-> {u}, status |-> st] :
            u \in StoreIdSet, st \in {"UNBLOCKED", "FAILED"}}
    \cup {[op |-> "clear_pending_blocked_users", ids |-> {}, status |-> ""]}
    \cup {[op |-> "add_following_users", ids |-> S, status |-> "PENDING"] :
            S \in SUBSET StoreIdSet \ {{}}}
    \cup {[op |-> "update_following_status", ids |-> S, status |-> st] :
            S \in SUBSET StoreIdSet \ {{}}, st \in {"UNFOLLOWED", "FAILED"}}
    \cup {[op |-> "clear_pending_following_users", ids |-> {}, status |-> ""]}

InitTx ==
    /\ \/ /\ blocked_users \in Tables(StoreIdSet, BlockedStatuses)
          /\ following_users = {}
       \/ /\ blocked_users = {}
          /\ following_users \in Tables(StoreIdSet, FollowingStatuses)
    /\ last_op = NoOp
    /\ ServiceIdle
    /\ RunIdle
    /\ prev = "none"
    /\ DbIdle
    /\ SemIdle

\* with self.transaction() as conn: the connection is opened and handed to
\* the body of a write operation
TxEnter ==
    \E call \in TxCalls :
        /\ txn.phase = "idle"
        /\ conn.state = "none"
        /\ conn' = connect
        /\ txn' = [op |-> call.op, ids |-> call.ids, status |-> call.status,
                   todo |-> Statements(call.op, call.ids), done |-> {},
                   phase |-> "body", exc |-> "", propagated |-> "", pre |-> Db]
        /\ UNCHANGED <<storeVars, svcVars, runVars, schema, schema_versions, backups, mig,
                       semVars>>

\* the body executes its next statement
TxExecute ==
    \E x \in txn.todo :
        /\ txn.phase = "body"
        /\ conn' = execute(conn, "dml", Db)
        /\ SetDb(ApplyStatement(txn.op, Db, x, txn.ids, txn.status))
        /\ txn' = [txn EXCEPT !.todo = @ \ {x}, !.done = @ \cup {x}]
        /\ UNCHANGED <<last_op, svcVars, runVars, backups, mig, semVars>>

\* a statement of the body raises: the statement has no effect and the
\* exception reaches the handler of transaction()
TxBodyRaises ==
    \E e \in SqliteErrors :
        /\ txn.phase = "body"
        /\ txn.todo # {}
        /\ txn' = [txn EXCEPT !.phase = "raised", !.exc = e]
        /\ UNCHANGED <<conn, storeVars, svcVars, runVars, schema, schema_versions, backups,
                       mig, semVars>>

\* the body returns: conn.commit()
TxBodyReturns ==
    /\ txn.phase = "body"
    /\ txn.todo = {}
    /\ conn' = commit(conn)
    /\ txn' = [txn EXCEPT !.phase = "committed"]
    /\ UNCHANGED <<storeVars, svcVars, runVars, schema, schema_versions, backups, mig,
                   semVars>>

\* except Exception: conn.rollback()
TxRollback ==
    /\ txn.phase = "raised"
    /\ SetDb(rollback(conn, Db))
    /\ conn' = commit(conn)
    /\ txn' = [txn EXCEPT !.phase = "rolledback"]
    /\ UNCHANGED <<last_op, svcVars, runVars, backups, mig, semVars>>

\* finally: conn.close()
TxClose ==
    /\ txn.phase \in {"committed", "rolledback"}
    /\ SetDb(rollback(conn, Db))
    /\ conn' = close(conn)
    /\ txn' = [txn EXCEPT !.phase = "closed"]
    /\ UNCHANGED <<last_op, svcVars, runVars, backups, mig, semVars>>

\* transaction() is left, by falling off the with block or by the re-raised
\* exception of the body
TxExit ==
    /\ txn.phase = "closed"
    /\ txn' = [txn EXCEPT !.phase = "exited", !.propagated = txn.exc]
    /\ UNCHANGED <<conn, storeVars, svcVars, runVars, schema, schema_versions, backups, mig,
                   semVars>>

NextTx ==
    \/ TxEnter
    \/ TxExecute
    \/ TxBodyRaises
    \/ TxBodyReturns
    \/ TxRollback
    \/ TxClose
    \/ TxExit

\* --------------------------------------- SpecMigrate: the migration runner
\* The schema is the set of tables ("insights") and columns
\* ("insights.tweet_count") the store file has. The rows of the queue tables
\* play no part in the runner and are left out; the UPDATE statements of
\* m001 are kept for the transaction they open.

LedgerTable == {"schema_versions"}

Stmt(k, t, c, a) == [k |-> k, table |-> t, col |-> c, adds |-> a]

\* InitialSchema.up
Up1 ==
    << Stmt("create", "insights", "", {"insights.tweet_count"}),
       Stmt("create", "blocked_users", "",
            {"blocked_users.status", "blocked_users.updated_at"}),
       Stmt("create", "following_users", "", {}),
       Stmt("create", "followers", "", {}),
       Stmt("create", "unfollows", "", {}),
       Stmt("add_column", "insights", "insights.tweet_count", {}),
       Stmt("add_column", "blocked_users", "blocked_users.status", {}),
       Stmt("add_column", "blocked_users", "blocked_users.updated_at", {}),
       Stmt("update", "blocked_users", "blocked_users.updated_at", {}),
       Stmt("update", "blocked_users", "blocked_users.unblocked_at", {}) >>

\* AddListedCount.up
Up2 == << Stmt("add_column", "insights", "insights.listed_count", {}) >>

\* CreateDeletedTweetsTable.up
Up3 == << Stmt("create", "deleted_tweets", "", {"deleted_tweets.views"}) >>

\* RenameViewsToEngagement.up
Up4 == << Stmt("rename_column", "deleted_tweets", "deleted_tweets.views", {}) >>

\* RenameViewsToEngagement.up, except sqlite3.OperationalError: the table
\* is recreated
Up4Fallback ==
    << Stmt("rename_table", "deleted_tweets", "", {}),
       Stmt("create_new", "deleted_tweets", "", {"deleted_tweets.engagement_score"}),
       Stmt("copy_rows", "deleted_tweets", "", {}),
       Stmt("drop_old", "deleted_tweets_old", "", {}) >>

Up(v) ==
    CASE v = 1 -> Up1
      [] v = 2 -> Up2
      [] v = 3 -> Up3
      [] v = 4 -> Up4

\* whether up reaches the statement on a store of schema sch: the column
\* tests made with PRAGMA table_info
Runs(st, sch) ==
    CASE st.k = "add_column" -> st.col \notin sch
      [] st.k = "update" -> st.col \in sch
      [] st.k = "rename_column" ->
            st.col \in sch /\ "deleted_tweets.engagement_score" \notin sch
      [] OTHER -> TRUE

\* INSERT / UPDATE are the statements sqlite3 opens a transaction for
Kind(st) == IF st.k \in {"update", "copy_rows"} THEN "dml" ELSE "ddl"

\* the schema after the statement
Effect(st, sch) ==
    CASE st.k = "create" ->
            IF st.table \in sch THEN sch ELSE sch \cup {st.table} \cup st.adds
      [] st.k = "add_column" -> sch \cup {st.col}
      [] st.k = "rename_column" ->
            (sch \ {st.col}) \cup {"deleted_tweets.engagement_score"}
      [] st.k = "rename_table" ->
            (sch \ {"deleted_tweets", "deleted_tweets.views"})
                \cup {"deleted_tweets_old", "deleted_tweets_old.views"}
      [] st.k = "create_new" -> sch \cup {st.table} \cup st.adds
      [] st.k = "drop_old" -> sch \ {"deleted_tweets_old", "deleted_tweets_old.views"}
      [] OTHER -> sch

\* every available migration is taken as pending
pending_migrations_all(avail, applied_versions) == SortedSeq(1..avail)

\* the available migrations are not sorted: the pending ones come highest
\* version first
pending_migrations_descending(avail, applied_versions) ==
    LET asc == SortedSeq({v \in 1..avail : v \notin applied_versions})
    IN [j \in 1..Len(asc) |-> asc[Len(asc) + 1 - j]]

\* [m for m in available_migrations if m.version not in applied_versions],
\* available_migrations sorted by version
pending_migrations(avail, applied_versions) ==
    SortedSeq({v \in 1..avail : v \notin applied_versions})

\* stores the program can be started on: no file yet, or the tables of a
\* release that had no migration runner
InitialSchemas ==
    { {},
      {"insights", "blocked_users", "blocked_users.unblocked_at"},
      {"insights", "insights.tweet_count", "blocked_users", "blocked_users.status",
       "blocked_users.updated_at", "followers"} }

InitMigrate ==
    /\ blocked_users = {}
    /\ following_users = {}
    /\ last_op = NoOp
    /\ ServiceIdle
    /\ RunIdle
    /\ prev = "none"
    /\ conn = NoConn
    /\ txn = NoTxn
    /\ schema \in InitialSchemas
    /\ schema_versions = {}
    /\ backups = 0
    /\ mig = NoMig
    /\ SemIdle

MigUnchanged == UNCHANGED <<storeVars, svcVars, runVars, txn, semVars>>

\* run_migrations is called; the release that calls it ships migrations
\* 1..avail, at least those of the release that ran before
RunMigrations ==
    \E n \in 1..NumMigrations :
        /\ mig.pc = "idle"
        /\ mig.run < MaxRuns
        /\ n >= mig.prev_avail
        /\ mig' = [mig EXCEPT !.pc = "ensure", !.avail = n, !.applied_versions = {},
                              !.pending = <<>>, !.k = 0, !.stmt = 0, !.fallback = FALSE,
                              !.exc = "", !.failed = "", !.applied_now = {},
                              !.start = [db |-> Db, backups |-> backups]]
        /\ UNCHANGED <<conn, schema, schema_versions, backups>>
        /\ MigUnchanged

\* _ensure_migrations_table: CREATE TABLE IF NOT EXISTS schema_versions in a
\* transaction of its own, or an exception that ends run_migrations
EnsureMigrationsTable ==
    /\ mig.pc = "ensure"
    /\ \/ /\ schema' = schema \cup LedgerTable
          /\ mig' = [mig EXCEPT !.pc = "read"]
       \/ \E e \in SqliteErrors :
              /\ mig' = [mig EXCEPT !.pc = "error", !.exc = e, !.failed = "ensure"]
              /\ UNCHANGED schema
    /\ UNCHANGED <<conn, schema_versions, backups>>
    /\ MigUnchanged

\* _get_applied_versions, _get_migration_classes and the pending list; with
\* nothing pending run_migrations returns
GetAppliedVersions ==
    /\ mig.pc = "read"
    /\ LET pending == pending_migrations(mig.avail, schema_versions)
       IN mig' = [mig EXCEPT !.applied_versions = schema_versions,
                             !.pending = pending,
                             !.pc = IF pending = <<>> THEN "done" ELSE "backup"]
    /\ UNCHANGED <<conn, schema, schema_versions, backups>>
    /\ MigUnchanged

\* backup_database() copies the store file (a failed copy is logged and
\* returns None), then the transaction of the migrations is entered
BackupDatabase ==
    /\ mig.pc = "backup"
    /\ backups' \in {backups, backups + 1}
    /\ conn' = connect
    /\ mig' = [mig EXCEPT !.pc = "migrate", !.k = 1, !.stmt = 1]
    /\ UNCHANGED <<schema, schema_versions>>
    /\ MigUnchanged

\* the migration up is running and the statements it is made of
Migration == mig.pending[mig.k]

UpStatements == IF mig.fallback THEN Up4Fallback ELSE Up(Migration)

\* migration.up(cursor) comes to its next statement and executes it, or
\* passes it by when its column test says so; after the last one the ledger
\* row is due
MigrateStatement ==
    /\ mig.pc = "migrate"
    /\ IF mig.stmt > Len(UpStatements)
       THEN /\ mig' = [mig EXCEPT !.pc = "ledger"]
            /\ UNCHANGED <<conn, schema>>
       ELSE LET st == UpStatements[mig.stmt]
            IN /\ mig' = [mig EXCEPT !.stmt = @ + 1]
               /\ IF Runs(st, schema)
                  THEN /\ conn' = execute(conn, Kind(st), Db)
                       /\ schema' = Effect(st, schema)
                  ELSE UNCHANGED <<conn, schema>>
    /\ UNCHANGED <<schema_versions, backups>>
    /\ MigUnchanged

\* the statement raises: RENAME COLUMN failing with OperationalError sends
\* up into the table recreation, any other exception leaves up and reaches
\* "except Exception: ... raise" of run_migrations
MigrateRaises ==
    \E e \in SqliteErrors :
        /\ mig.pc = "migrate"
        /\ mig.stmt <= Len(UpStatements)
        /\ Runs(UpStatements[mig.stmt], schema)
        /\ IF UpStatements[mig.stmt].k = "rename_column" /\ e = "OperationalError"
           THEN mig' = [mig EXCEPT !.fallback = TRUE, !.stmt = 1]
           ELSE mig' = [mig EXCEPT !.pc = "rollback", !.exc = e, !.failed = "up"]
        /\ UNCHANGED <<conn, schema, schema_versions, backups>>
        /\ MigUnchanged

\* INSERT INTO schema_versions (version, description): the ledger row of the
\* migration (version is the primary key), then the next pending migration
\* or the end of the with block
InsertLedgerRow ==
    /\ mig.pc = "ledger"
    /\ conn' = execute(conn, "dml", Db)
    /\ IF Migration \in schema_versions
       THEN /\ mig' = [mig EXCEPT !.pc = "rollback", !.exc = "IntegrityError",
                                  !.failed = "ledger"]
            /\ UNCHANGED schema_versions
       ELSE /\ schema_versions' = schema_versions \cup {Migration}
            /\ mig' = [mig EXCEPT !.applied_now = @ \cup {Migration},
                                  !.k = @ + 1, !.stmt = 1, !.fallback = FALSE,
                                  !.pc = IF mig.k = Len(mig.pending)
                                         THEN "commit" ELSE "migrate"]
    /\ UNCHANGED <<schema, backups>>
    /\ MigUnchanged

\* the with block is left normally: conn.commit()
MigCommit ==
    /\ mig.pc = "commit"
    /\ conn' = commit(conn)
    /\ mig' = [mig EXCEPT !.pc = "close"]
    /\ UNCHANGED <<schema, schema_versions, backups>>
    /\ MigUnchanged

\* the with block is left by the exception: conn.rollback()
MigRollback ==
    /\ mig.pc = "rollback"
    /\ schema' = rollback(conn, Db).schema
    /\ schema_versions' = rollback(conn, Db).ledger
    /\ conn' = commit(conn)
    /\ mig' = [mig EXCEPT !.pc = "close"]
    /\ UNCHANGED backups
    /\ MigUnchanged

\* finally: conn.close(); run_migrations returns, or the exception goes on
\* to its caller
MigClose ==
    /\ mig.pc = "close"
    /\ schema' = rollback(conn, Db).schema
    /\ schema_versions' = rollback(conn, Db).ledger
    /\ conn' = NoConn
    /\ mig' = [mig EXCEPT !.pc = IF mig.exc = "" THEN "done" ELSE "error"]
    /\ UNCHANGED backups
    /\ MigUnchanged

\* the call is over; the store file stays for the next call
MigReturn ==
    /\ mig.pc \in {"done", "error"}
    /\ mig' = [mig EXCEPT !.pc = "idle", !.run = @ + 1, !.prev = mig.pc,
                          !.prev_avail = mig.avail]
    /\ UNCHANGED <<conn, schema, schema_versions, backups>>
    /\ MigUnchanged

NextMigrate ==
    \/ RunMigrations
    \/ EnsureMigrationsTable
    \/ GetAppliedVersions
    \/ BackupDatabase
    \/ MigrateStatement
    \/ MigrateRaises
    \/ InsertLedgerRow
    \/ MigCommit
    \/ MigRollback
    \/ MigClose
    \/ MigReturn

vars == <<storeVars, svcVars, runVars, dbVars, semVars>>

SpecStore == InitStore /\ [][NextStore]_vars

SpecService == InitService /\ [][NextService]_vars

Spec == Init /\ [][Next]_vars

SpecSem == InitSem /\ [][NextSem]_vars

SpecTx == InitTx /\ [][NextTx]_vars

SpecMigrate == InitMigrate /\ [][NextMigrate]_vars

SpecV2 == InitV2 /\ [][NextV2]_vars

\* a single v2 call; the event loop resumes the coroutine when its sleep or
\* its request has ended
SpecOneCall == InitV2 /\ [][NextOneCall]_vars /\ WF_vars(NextOneCall)

\* ------------------------------------------------------------------ claims

\* the relation C1 states between a queue before and after upsertPending
UpsertRelation(pre, S, post) ==
    /\ \A u \in Keys(pre) : HasRow(post, u) /\ StatusOf(post, u) = StatusOf(pre, u)
    /\ \A u \in S \ Keys(pre) : HasRow(post, u) /\ StatusOf(post, u) = "PENDING"
    /\ Keys(post) = Keys(pre) \cup S
    /\ UniqueKey(post)

\* C1: idempotent insertion. add_blocked_users / add_following_users applied
\* to any queue and any id set S leave the status of every id already queued
\* unchanged (a non-PENDING status is never reset to PENDING), insert every
\* id of S not yet present as PENDING, and never create a second row for an id.
C1_IdempotentInsertion ==
    /\ last_op.name = "add_blocked_users" =>
           UpsertRelation(last_op.blocked, last_op.ids, blocked_users)
    /\ last_op.name = "add_following_users" =>
           UpsertRelation(last_op.following, last_op.ids, following_users)

\* an upsert of an id whose row holds a non-PENDING status, together with a new id
C1_Witness ==
    /\ last_op.name = "add_blocked_users"
    /\ \E u \in last_op.ids :
           HasRow(last_op.blocked, u) /\ StatusOf(last_op.blocked, u) = "UNBLOCKED"
    /\ \E u \in last_op.ids : ~HasRow(last_op.blocked, u)

\* ------------------------------------------------ claims on unblock_user
Apis(c) == [k \in 1..Len(calls[c]) |-> calls[c][k][1]]

\* the calls of the reconciliation, i.e. all but the primary destroy_block
Reconciliation(c) == SelectSeq(Apis(c), LAMBDA a : a # "destroy_block")

HasCall(c, api, answer) == <<api, answer>> \in Range(calls[c])

Invoked(c, api) == api \in Range(Apis(c))

PrimaryAnswers(c) ==
    SelectSeq(calls[c], LAMBDA e : e[1] = "destroy_block")

Ended(c) == spc[c] \in {"returned", "raised"}

\* C5: ghost. When the primary unblock fails with NotFound and the existence
\* check reports the target absent, unblock_user returns NOT_FOUND and
\* neither fallback strategy (v2 unblock, block/unblock toggle) is invoked.
C5_Ghost ==
    \A c \in Callers :
        (HasCall(c, "destroy_block", "NotFound") /\ HasCall(c, "get_user", "NotFound")) =>
            /\ spc[c] = "returned"
            /\ result[c] = "NOT_FOUND"
            /\ ~Invoked(c, "v2_unblock")
            /\ ~Invoked(c, "create_block")

C5_Witness ==
    \E c \in Callers :
        /\ spc[c] = "returned"
        /\ calls[c] = <<(<<"destroy_block", "NotFound">>), (<<"get_user", "NotFound">>)>>

ZombieAllFail(c) ==
    /\ HasCall(c, "destroy_block", "NotFound")
    /\ HasCall(c, "get_user", "OK")
    /\ HasCall(c, "v2_unblock", "NotFound")
    /\ \/ HasCall(c, "create_block", "NotFound")
       \/ HasCall(c, "toggle_destroy_block", "NotFound")

AllStrategiesInOrder(c) ==
    Reconciliation(c) \in
        { <<"get_user", "v2_unblock", "create_block">>,
          <<"get_user", "v2_unblock", "create_block", "toggle_destroy_block">> }

\* C6: zombie, all remedies fail. When the primary action fails with
\* NotFound, the existence check reports the target present and Strategy A
\* and Strategy B both fail with NotFound, the result is NOT_FOUND; and
\* NOT_FOUND is returned for a present target only after the existence
\* check, Strategy A and Strategy B were each attempted once, in that order.
C6_ZombieAllFail ==
    \A c \in Callers :
        /\ ZombieAllFail(c) =>
               /\ spc[c] = "returned"
               /\ result[c] = "NOT_FOUND"
        /\ (HasCall(c, "get_user", "OK") /\ spc[c] = "returned" /\ result[c] = "NOT_FOUND") =>
               AllStrategiesInOrder(c)

C6_Witness ==
    \E c \in Callers :
        /\ ZombieAllFail(c)
        /\ result[c] = "NOT_FOUND"
        /\ HasCall(c, "toggle_destroy_block", "NotFound")

\* C7: zombie, Strategy A succeeds. When the primary action fails with
\* NotFound, the existence check reports the target present and the v2
\* unblock succeeds, the result is SUCCESS and the block/unblock toggle is
\* never invoked.
C7_StrategyASucceeds ==
    \A c \in Callers :
        (/\ HasCall(c, "destroy_block", "NotFound")
         /\ HasCall(c, "get_user", "OK")
         /\ HasCall(c, "v2_unblock", "OK")) =>
            /\ spc[c] = "returned"
            /\ result[c] = "SUCCESS"
            /\ ~Invoked(c, "create_block")
            /\ ~Invoked(c, "toggle_destroy_block")

C7_Witness ==
    \E c \in Callers :
        /\ spc[c] = "returned"
        /\ HasCall(c, "destroy_block", "NotFound")
        /\ HasCall(c, "v2_unblock", "OK")

\* C8: an inconclusive existence check is never treated as absent. When the
\* primary action fails with NotFound and get_user raises anything but
\* NotFound or Forbidden, unblock_user returns FAILED (neither NOT_FOUND nor
\* SUCCESS) and no fallback strategy is invoked.
C8_InconclusiveIsFailed ==
    \A c \in Callers :
        (HasCall(c, "destroy_block", "NotFound") /\ HasCall(c, "get_user", "Error")) =>
            /\ spc[c] = "returned"
            /\ result[c] = "FAILED"
            /\ ~Invoked(c, "v2_unblock")
            /\ ~Invoked(c, "create_block")

C8_Witness ==
    \E c \in Callers :
        /\ HasCall(c, "get_user", "Error")
        /\ spc[c] = "returned"
        /\ result[c] = "FAILED"

AllTransient(c) ==
    \A k \in 1..Len(calls[c]) : calls[c][k] = <<"destroy_block", "Transient">>

TransientThenSuccess(c) ==
    /\ Len(calls[c]) >= 1
    /\ calls[c][Len(calls[c])] = <<"destroy_block", "OK">>
    /\ \A k \in 1..(Len(calls[c]) - 1) : calls[c][k] = <<"destroy_block", "Transient">>

Terminal(tbl, u) == HasRow(tbl, u) /\ StatusOf(tbl, u) \in {"UNBLOCKED", "NOT_FOUND"}

\* a step of a batch run, or between runs: no --user-id before or after it
BatchStep == user_id = None /\ user_id' = None

\* C2: no double success. Over any sequence of batch runs (forced refresh or
\* not, whatever the fetched set), once a target's stored status is
\* UNBLOCKED or NOT_FOUND no step invokes the remote action for it and no
\* step changes its stored status.
C2_NoDoubleSuccess ==
    [][BatchStep =>
          \A u \in Ids :
              Terminal(blocked_users, u) =>
                  /\ HasRow(blocked_users', u)
                  /\ StatusOf(blocked_users', u) = StatusOf(blocked_users, u)
                  /\ (u \in invoked' => u \in invoked)]_vars

\* a forced-refresh batch run is invoking remote actions while another
\* target, left out of its pending list, is already terminal in the store
C2_Witness ==
    /\ pc = "gather"
    /\ user_id = None
    /\ refresh
    /\ ~dry_run
    /\ invoked # {}
    /\ \E u \in Ids : Terminal(blocked_users, u) /\ u \notin Range(pending_ids)

\* the targets the run has processed with their outcome written to the store
WrittenIds ==
    {pending_ids[n] : n \in 1..Min(i, Len(pending_ids))}
        \cup {u \in Chunk : results[u] # "" /\ results[u] \in wrote}

\* execute has returned or raised and no worker is left that could still
\* reach its remote call
RunOver ==
    \/ pc = "done"
    \/ pc = "error" /\ \A u \in Chunk : results[u] # "" \/ u \in invoked

\* C3: crash safety. After a batch run was terminated between the store
\* write of chunk k and that of chunk k+1, a restarted run without forced
\* refresh invokes the remote action for exactly the targets whose stored
\* status is PENDING or FAILED (its pending list), and for no target
\* recorded as UNBLOCKED or NOT_FOUND.
C3_CrashSafety ==
    (/\ prev = "crash_between_chunks"
     /\ user_id = None
     /\ ~refresh
     /\ ~dry_run
     /\ RunOver) =>
        invoked = Range(pending_ids)

\* C4: forced refresh preserves terminal state. After the SYNC_QUEUE step of
\* a forced refresh with fetched set F, every target that had a non-PENDING
\* status keeps exactly that status, every target of F that was PENDING is
\* PENDING, and every target of F that had no row is newly PENDING.
C4_RefreshPreservesTerminal ==
    (pc = "select" /\ refresh /\ user_id = None) =>
        /\ UniqueKey(blocked_users)
        /\ \A u \in Ids :
               /\ (HasRow(start_table, u) /\ StatusOf(start_table, u) # "PENDING") =>
                      /\ HasRow(blocked_users, u)
                      /\ StatusOf(blocked_users, u) = StatusOf(start_table, u)
               /\ (u \in fetched /\ HasRow(start_table, u)
                                 /\ StatusOf(start_table, u) = "PENDING") =>
                      /\ HasRow(blocked_users, u)
                      /\ StatusOf(blocked_users, u) = "PENDING"
               /\ (u \in fetched /\ ~HasRow(start_table, u)) =>
                      /\ HasRow(blocked_users, u)
                      /\ StatusOf(blocked_users, u) = "PENDING"

\* the example of the specification: {1 SUCCESS, 2 PENDING} refreshed with
\* F = {1, 2, 3}
C4_Witness ==
    /\ pc = "select"
    /\ refresh
    /\ start_table = {Row(1, "UNBLOCKED"), Row(2, "PENDING")}
    /\ fetched = {1, 2, 3}
    /\ blocked_users = {Row(1, "UNBLOCKED"), Row(2, "PENDING"), Row(3, "PENDING")}

\* C10: individual target failures never abort the batch. Whatever outcome
\* one target's remote action has, a transient error re-raised after the
\* last attempt included, every other target of the same chunk and of all
\* later chunks is still processed and its outcome is written to the store.
C10_FailuresNeverAbort ==
    (user_id = None /\ RunOver) =>
        \A u \in Range(pending_ids) \ {raised} :
            /\ u \in WrittenIds
            /\ ~dry_run => u \in invoked

\* C11: retry exhaustion is recorded as FAILED. When the primary action of a
\* target of a batch run raises a transient error on all maxAttempts
\* attempts (unblock_user re-raises to the worker), status FAILED is written
\* to the store for that target before the run ends.
C11_ExhaustionRecordedFailed ==
    (user_id = None /\ raised # None /\ RunOver) =>
        /\ raised \in WrittenIds
        /\ HasRow(blocked_users, raised)
        /\ StatusOf(blocked_users, raised) = "FAILED"

PositionOf(u) == CHOOSE n \in 1..Len(pending_ids) : pending_ids[n] = u

\* the positions of pending_ids that lie in a chunk before the chunk of position n
EarlierChunks(n) == 1..(BatchSize * ((n - 1) \div BatchSize))

\* C12: chunk barrier. In a batch run, whenever the remote action of a
\* target starts, every target of every earlier chunk has had its worker
\* return and its status written to the store: the loop offset has moved
\* past it, no result of it is waiting to be written and its row holds a
\* processed status.
C12_ChunkBarrier ==
    [][\A u \in invoked' \ invoked :
           user_id = None =>
               /\ u \in Range(pending_ids)
               /\ \A m \in EarlierChunks(PositionOf(u)) :
                      /\ m <= i
                      /\ results[pending_ids[m]] = ""
                      /\ HasRow(blocked_users, pending_ids[m])
                      /\ StatusOf(blocked_users, pending_ids[m]) # "PENDING"]_vars

\* a target of the second chunk has had its remote action invoked
C12_Witness ==
    /\ pc = "gather"
    /\ user_id = None
    /\ ~dry_run
    /\ i >= BatchSize
    /\ \E u \in Chunk : u \in invoked

\* C17: single-target override. For any caller-supplied id, queued or not,
\* the run fetches no target set, processes no chunk, invokes the remote
\* action for exactly that id and leaves a row for the id whose status
\* reflects the outcome (UNBLOCKED exactly when the action succeeded).
C17_SingleTargetOverride ==
    (user_id # None /\ ~dry_run /\ pc = "done") =>
        /\ fetch_result = ""
        /\ pending_ids = <<>>
        /\ i = 0
        /\ invoked = {user_id}
        /\ HasRow(blocked_users, user_id)
        /\ StatusOf(blocked_users, user_id) \in {"UNBLOCKED", "NOT_FOUND", "FAILED"}
        /\ StatusOf(blocked_users, user_id) = "UNBLOCKED" <=> results[user_id] = "SUCCESS"

\* the ids a table holds as PENDING or FAILED
PendingOrFailed(tbl) == {r.user_id : r \in {x \in tbl : x.status \in {"PENDING", "FAILED"}}}

\* C18: non-fatal fetch failure. When get_blocked_user_ids raises in a batch
\* run that found rows in the queue, the run does not end with the error:
\* it goes on and processes the targets that were PENDING or FAILED before
\* the run started.
C18_FetchFailureNonFatal ==
    (user_id = None /\ fetch_result = "raised" /\ start_table # {}) =>
        /\ pc # "error"
        /\ (RunOver /\ ~dry_run) => PendingOrFailed(start_table) \subseteq invoked

\* C19: failed items are retried automatically. The pending list of a batch
\* run without forced refresh is exactly the ids stored as PENDING or
\* FAILED, and every target the store held as FAILED when the run started
\* has had its remote action attempted when the run is over.
C19_FailedRetried ==
    (user_id = None /\ ~refresh /\ ~dry_run /\ start_table # {} /\ RunOver) =>
        /\ Range(pending_ids) = PendingOrFailed(start_table)
        /\ \A u \in Ids :
               (HasRow(start_table, u) /\ StatusOf(start_table, u) = "FAILED") =>
                   u \in invoked

\* the condition under which C20 says the target set is fetched
SyncExpected == refresh \/ start_table = {}

\* C20: sync condition. A batch run calls get_blocked_user_ids if and only
\* if the queue had no rows when the run started or --refresh is set; with
\* a non-empty queue and no refresh the target set is never fetched and the
\* run reads and invokes only ids the store held as PENDING or FAILED.
C20_SyncCondition ==
    (user_id = None /\ pc # "idle") =>
        /\ fetch_result # "" => SyncExpected
        /\ (SyncExpected /\ pc \notin {"clear", "fetch"}) => fetch_result # ""
        /\ ~SyncExpected =>
               /\ fetched = {}
               /\ pc \in {"gather", "done", "error"} =>
                      Range(pending_ids) = PendingOrFailed(start_table)
               /\ invoked \subseteq PendingOrFailed(start_table)

\* a run resumed from a non-empty queue is invoking remote actions
C20_Witness ==
    /\ pc = "gather"
    /\ user_id = None
    /\ ~refresh
    /\ start_table # {}
    /\ fetch_result = ""
    /\ invoked # {}

\* C13: bounded concurrency. In every reachable state of a non-dry-run
\* batch the number of workers inside a remote action call is at most the
\* semaphore size, for any number of workers gathered and any interleaving;
\* the permits taken and the permits left always add up to the size.
C13_BoundedConcurrency ==
    /\ tasks.inside <= SemaphoreValue
    /\ sem >= 0
    /\ sem + tasks.inside = SemaphoreValue

\* every permit is taken and a worker of the chunk is kept waiting
C13_Witness ==
    /\ tasks.inside = SemaphoreValue
    /\ tasks.waiting > 0
    /\ locked(sem)

\* the store after the whole operation of the call, as the store operators
\* define it
WholeOperation(t) ==
    CASE t.op = "add_blocked_users" ->
            [t.pre EXCEPT !.blocked = add_blocked_users(@, t.ids)]
      [] t.op = "update_user_statuses" ->
            [t.pre EXCEPT !.blocked = update_user_statuses(@, t.ids, t.status)]
      [] t.op = "update_user_status" ->
            [t.pre EXCEPT !.blocked =
                              update_user_status(@, CHOOSE u \in t.ids : TRUE, t.status)]
      [] t.op = "clear_pending_blocked_users" ->
            [t.pre EXCEPT !.blocked = clear_pending_blocked_users(@)]
      [] t.op = "add_following_users" ->
            [t.pre EXCEPT !.following = add_following_users(@, t.ids)]
      [] t.op = "update_following_status" ->
            [t.pre EXCEPT !.following = update_following_status(@, t.ids, t.status)]
      [] t.op = "clear_pending_following_users" ->
            [t.pre EXCEPT !.following = clear_pending_following_users(@)]

SecondRun == mig.pc # "idle" /\ mig.prev = "done" /\ mig.avail = mig.prev_avail

C24_RestrictedIsGhost ==
    \A c \in Callers :
        (HasCall(c, "destroy_block", "NotFound") /\ HasCall(c, "get_user", "Forbidden")) =>
            /\ spc[c] = "returned"
            /\ result[c] = "NOT_FOUND"
            /\ ~Invoked(c, "v2_unblock")
            /\ ~Invoked(c, "create_block")

C24_Witness ==
    \E c \in Callers :
        /\ spc[c] = "returned"
        /\ result[c] = "NOT_FOUND"
        /\ calls[c] = <<(<<"destroy_block", "NotFound">>), (<<"get_user", "Forbidden">>)>>

\* the errors the retry policy must not retry
PermanentKinds == {"NotFound", "Forbidden", "TooManyRequests", "Generic"}

C26_UnexpectedNeverTerminal ==
    \A c \in Callers :
        (spc[c] = "returned" /\ result[c] = "NOT_FOUND") =>
            \/ HasCall(c, "get_user", "NotFound")
            \/ HasCall(c, "get_user", "Forbidden")
            \/ /\ HasCall(c, "v2_unblock", "NotFound")
               /\ \/ HasCall(c, "create_block", "NotFound")
                  \/ HasCall(c, "toggle_destroy_block", "NotFound")

\* ------------------------------------- claims on the runs, second part
\* C27: a ghost is recorded as terminal on every path. When the remote action
\* for a queued target has ended in NOT_FOUND, the store write that follows
\* records NOT_FOUND for it, on the single-target path as on the batch path,
\* so that no later batch run selects the target.
C27_GhostRecordedTerminal ==
    /\ (/\ user_id # None
        /\ pc = "done"
        /\ results[user_id] = "NOT_FOUND"
        /\ HasRow(start_table, user_id)) =>
           StatusOf(blocked_users, user_id) = "NOT_FOUND"
    /\ (user_id = None /\ pc = "gather" /\ "NOT_FOUND" \in wrote) =>
           \A u \in ChunkIdsWith("NOT_FOUND") : StatusOf(blocked_users, u) = "NOT_FOUND"

\* C28: the single-target override respects a terminal status. A run with
\* --user-id for an id the store held as UNBLOCKED or NOT_FOUND when the run
\* began leaves that status as it was.
C28_OverrideRespectsTerminal ==
    (user_id # None /\ Terminal(start_table, user_id)) =>
        StatusOf(blocked_users, user_id) = StatusOf(start_table, user_id)

\* the targets of the running chunk whose outcome is in the store
FlushedOfChunk == {u \in Chunk : results[u] # "" /\ results[u] \in wrote}

\* C29: the outcomes of a chunk are flushed in one store write. At every
\* point of a batch run at which the process can be killed, the store holds
\* the outcomes of all targets of the running chunk or of none of them.
C29_ChunkFlushedAtomically ==
    (user_id = None /\ pc = "gather") => FlushedOfChunk \in {{}, Chunk}

\* ------------------------------------ claims on the migrations, second part
\* a step of run_migrations that respects the order of the ledger
LedgerStep ==
    LET added == schema_versions' \ schema_versions
    IN /\ Cardinality(added) <= 1
       /\ \A v \in added :
              /\ \A w \in schema_versions : w < v
              /\ mig.pc = "ledger"
              /\ v = Migration
              /\ mig.stmt > Len(UpStatements)
       /\ mig.pc \in {"migrate", "ledger"} =>
              /\ \A j \in 1..(Len(mig.pending) - 1) : mig.pending[j] < mig.pending[j + 1]
              /\ mig.applied_now = {mig.pending[j] : j \in 1..(mig.k - 1)}
              /\ mig.applied_now \subseteq schema_versions

V2Ended(c) == v2[c].pc \in {"returned", "raised"}

\* a call never ends on a rate-limit signal, and it gives up on a transient
\* error only after maxAttempts of them in a row
RateLimitKeepsBudget ==
    \A c \in Callers :
        /\ V2Ended(c) => ~v2[c].last_rl
        /\ (v2[c].pc = "raised" /\ v2[c].outcome = "transient") =>
               v2[c].streak = maxAttempts

\* from the rate-limit wait a call only moves on to a new attempt, made with
\* a full budget of its own and with the attempts made so far not counted up
RateLimitStep ==
    \A c \in Callers :
        (v2[c].pc \in {"rate_limit", "close", "init"} /\ v2'[c] # v2[c]) =>
            /\ v2'[c].pc \in {"close", "init", "request"}
            /\ SubSeq(v2'[c].frames, 1, Len(v2[c].frames)) = v2[c].frames
            /\ v2'[c].pc = "request" => v2'[c].frames = Append(v2[c].frames, 1)

Rebuilding == {c \in Callers : v2[c].pc = "init"}

C31_BackupPrecedesMigration ==
    mig.pc # "idle" =>
        /\ (mig.pending # <<>> /\ mig.pc \notin {"ensure", "read", "backup"}) =>
               backups = mig.start.backups + 1
        /\ (mig.pending = <<>> \/ mig.pc \in {"ensure", "read", "backup"}) =>
               backups = mig.start.backups
        /\ mig.pc \in {"ensure", "read", "backup"} =>
               schema \ LedgerTable = mig.start.db.schema \ LedgerTable

\* the rows of tbl that clearPending has to keep
NotPending(tbl) == {r \in tbl : r.status # "PENDING"}

\* C32: clearPending frame. clear_pending_blocked_users and
\* clear_pending_following_users delete exactly the PENDING rows of their
\* queue: no PENDING row is left, every row with another status is there
\* as it was, no row is added, and the other queue is not touched.
C32_ClearPendingFrame ==
    /\ last_op.name = "clear_pending_blocked_users" =>
           /\ \A r \in blocked_users : r.status # "PENDING"
           /\ NotPending(last_op.blocked) \subseteq blocked_users
           /\ blocked_users \subseteq last_op.blocked
           /\ following_users = last_op.following
    /\ last_op.name = "clear_pending_following_users" =>
           /\ \A r \in following_users : r.status # "PENDING"
           /\ NotPending(last_op.following) \subseteq following_users
           /\ following_users \subseteq last_op.following
           /\ blocked_users = last_op.blocked

\* a queue with a PENDING and a FAILED row has been cleared, the other
\* queue holding a PENDING row too
C32_Witness ==
    /\ last_op.name = "clear_pending_following_users"
    /\ \E r \in last_op.following : r.status = "PENDING"
    /\ \E r \in last_op.following : r.status = "FAILED"
    /\ \E r \in following_users : r.status = "FAILED"
    /\ \E r \in blocked_users : r.status = "PENDING"

\* C33: bounded attempts act as the timeout. A call of delete_tweet or
\* get_user_tweets makes at most maxAttempts requests that are answered by
\* something else than a rate-limit signal, whatever the remote service
\* answers: the attempts of stop_after_attempt bound the call.
C33_BoundedAttempts ==
    \A c \in Callers : v2[c].tries <= maxAttempts

\* the steps from a rate-limit signal to the next attempt: the wait, made on
\* every branch and without a request; the close of the session; the new
\* client; and an attempt after a rate-limit signal starts nowhere else
RebuildStep ==
    \A c \in Callers :
        /\ (v2[c].pc = "rate_limit" /\ v2'[c] # v2[c]) =>
               /\ v2'[c].pc = "close"
               /\ v2'[c].wait \in {"reset + 5", "1801", "retry-after + 5", "901"}
               /\ client' = client
        /\ (v2[c].pc = "close" /\ v2'[c] # v2[c]) =>
               /\ v2'[c].pc = "init"
               /\ client'.session # "open"
        /\ (v2[c].pc = "init" /\ v2'[c] # v2[c]) =>
               /\ v2'[c].pc = "request"
               /\ client'.session = "none"
        /\ (v2[c].pc # "request" /\ v2'[c].pc = "request" /\ v2[c].last_rl) =>
               v2[c].pc = "init"

InV1Call == {c \in Callers : spc[c] \in {"primary", "check", "create_block",
                                          "toggle_destroy"}}

\* the two calls of the toggle fix are made under one hold of the lock
ToggleStep ==
    \A c \in Callers :
        (spc'[c] = "toggle_destroy" /\ spc[c] # "toggle_destroy") =>
            /\ spc[c] = "create_block"
            /\ v1_lock = c
            /\ v1_lock' = c
            /\ \A d \in Callers \ {c} : spc'[d] = spc[d] /\ calls'[d] = calls[d]

\* C35: single-flight access to the v1.1 API. At every moment at most one
\* coroutine is inside a v1.1 call (primary destroy_block, get_user of the
\* existence check, create_block and destroy_block of the toggle fix), it is
\* the holder of v1_lock, and the block-then-unblock pair runs under one
\* hold of the lock, so that no other v1.1 call is made between its steps.
C35_SingleFlight ==
    /\ [](Cardinality(InV1Call) <= 1 /\ \A c \in InV1Call : v1_lock = c)
    /\ [](InV1Call = {} => v1_lock = None)
    /\ [][ToggleStep]_vars

\* one coroutine is in the second call of the toggle fix while another one
\* waits for the lock, its primary call or its existence check still to make
C35_Witness ==
    \E c, d \in Callers :
        /\ c # d
        /\ spc[c] = "toggle_destroy"
        /\ v1_lock = c
        /\ spc[d] \in {"start", "want_check"}
        /\ result[c] = result[d]

\* a batch run leaves the processing of its chunks only as done, unless the
\* process is terminated
GatherStep ==
    (pc = "gather" /\ pc' # "gather") =>
        \/ pc' = "done"
        \/ pc' = "idle" /\ prev' \in {"crash", "crash_between_chunks"}

\* C36: no deadlock on the v1.1 lock. The lock is never requested by its
\* holder and is free whenever no v1.1 call is running, so every worker of
\* a chunk returns once its remote calls have returned or raised, and a
\* batch run that is not terminated from outside reaches DONE.
C36_WorkersReturnRunDone ==
    /\ [](\A c \in Callers : spc[c] \in {"start", "want_check", "want_toggle"} => v1_lock # c)
    /\ [](InV1Call = {} => v1_lock = None)
    /\ [][GatherStep]_vars

\* C37: a failed forced refresh loses no work. In a forced-refresh run that
\* has cleared the PENDING rows, at every point where the process may be
\* interrupted before the upsert and when the run has ended on a failed
\* fetch of the target set, every row that was PENDING before the run is
\* still in the queue as PENDING.
C37_FailedRefreshLosesNoWork ==
    (/\ user_id = None
     /\ refresh
     /\ pc \in {"fetch", "upsert"} \/ (pc = "error" /\ fetch_result = "raised")) =>
        \A r \in start_table : r.status = "PENDING" => r \in blocked_users

\* C38: queue contents after a successful forced refresh with fetched set
\* F. The rows are exactly the rows that were not PENDING before the run,
\* unchanged (a FAILED row whose id is not in F included), plus one PENDING
\* row for each id of F that had no such row; an id that was PENDING and is
\* not in F has no row any more.
C38_QueueAfterRefresh ==
    (pc = "select" /\ refresh /\ user_id = None /\ fetch_result = "returned") =>
        blocked_users =
            NotPending(start_table) \cup
            {Row(u, "PENDING") :
                u \in fetched \ {r.user_id : r \in NotPending(start_table)}}

\* {1 FAILED, 2 PENDING} refreshed with F = {3}: the FAILED row stays, the
\* PENDING row is gone and 3 is new
C38_Witness ==
    /\ pc = "select"
    /\ refresh
    /\ user_id = None
    /\ start_table = {Row(1, "FAILED"), Row(2, "PENDING")}
    /\ fetched = {3}
    /\ blocked_users = {Row(1, "FAILED"), Row(3, "PENDING")}

\* the offsets at which the loop of a batch run cuts its chunks
ChunkOffsets == {k \in 0..(Len(pending_ids) - 1) : k % BatchSize = 0}

\* a worker's status arrives for a target of the chunk being gathered, and
\* the store writes of a batch run touch no row of an id outside the list
DispatchStep ==
    user_id = None =>
        /\ \A u \in Ids :
               (results[u] = "" /\ results'[u] # "") =>
                   /\ pc = "gather"
                   /\ i \in ChunkOffsets
                   /\ u \in ChunkAt(pending_ids, i)
        /\ pc = "gather" =>
               {r \in blocked_users' : r.user_id \notin Range(pending_ids)} =
               {r \in blocked_users : r.user_id \notin Range(pending_ids)}

\* C39: complete coverage of a batch. The chunks partition the list that
\* get_pending_blocked_users returned, each of its ids gets its status from
\* one worker of its chunk, and when the run has ended without an exception
\* each of them is stored as UNBLOCKED, NOT_FOUND or FAILED (and, unless
\* the run was dry, had its remote action invoked); no row of an id outside
\* the list is changed by the run's writes.
C39_BatchCoverage ==
    /\ [](\A u \in Range(pending_ids) :
             Cardinality({k \in ChunkOffsets : u \in ChunkAt(pending_ids, k)}) = 1)
    /\ []((pc = "done" /\ user_id = None) =>
             /\ i >= Len(pending_ids)
             /\ ~dry_run => invoked = Range(pending_ids)
             /\ \A u \in Range(pending_ids) :
                    /\ HasRow(blocked_users, u)
                    /\ StatusOf(blocked_users, u) \in {"UNBLOCKED", "NOT_FOUND", "FAILED"})
    /\ [][DispatchStep]_vars

\* a batch run of two chunks has ended with each of the three outcomes
\* stored
C39_Witness ==
    /\ pc = "done"
    /\ user_id = None
    /\ ~dry_run
    /\ Len(pending_ids) = 3
    /\ invoked = {1, 2, 3}
    /\ {r.status : r \in blocked_users} = {"UNBLOCKED", "NOT_FOUND", "FAILED"}

\* C40: a dry run does not consume the queue. When a dry-run batch run has
\* ended, the list a following run reads with get_pending_blocked_users,
\* the targets whose remote unblock a non-dry run invokes, still holds every
\* target that was PENDING or FAILED before the dry run.
C40_DryRunKeepsQueue ==
    (pc = "done" /\ dry_run /\ user_id = None /\ ~refresh) =>
        PendingOrFailed(start_table) \subseteq
            Range(get_pending_blocked_users(blocked_users))

====
